---- MODULE Spec2Model ----
(***************************************************************************)
(* A model of fslanat: the batch entry point (_main), the flow that        *)
(* validates the per-subject flag lists and submits one task per image     *)
(* (fslanat_flow), the per-subject task (_fslanat) with its private        *)
(* temporary directory, the optional crop / reorient chain (_precrop,      *)
(* _reorient2standard), the engine call, the result check and the copy of  *)
(* the temporary directory to the subject's final path.                    *)
(*                                                                         *)
(* File names are sequences of one-character strings, so that the suffix   *)
(* handling of _img_stem and of Path.with_suffix is computed, not assumed. *)
(* A directory is the set of the file names in it.  External tools do not  *)
(* raise when they fail (subprocess.run is called without check=True): a   *)
(* failing tool just does not write its output.  The environment may make  *)
(* at most MaxFaults tool calls fail in one behaviour.                     *)
(***************************************************************************)
EXTENDS Integers, Sequences, FiniteSets, TLC

\* ------------------------------------------------------------------ bounds
MaxWorkers == 2     \* n_workers is drawn from 1..MaxWorkers
MaxFaults == 1      \* failures of external programs in one behaviour

Runs == {1, 2}      \* invocations of _main against the same output root
Subjects == {1, 2}  \* the positions of a batch: two images, so that two subjects
                    \* can share a path, fail apart and compete for a worker
BatchLen == Cardinality(Subjects)

\* ------------------------------------------------------------ file names
DOT == "."
GZ == <<".", "g", "z">>
NII == <<".", "n", "i", "i">>
ANAT == <<".", "a", "n", "a", "t">>

\* str.removesuffix
removesuffix(s, suf) ==
    IF Len(suf) > 0 /\ Len(s) >= Len(suf)
          /\ SubSeq(s, Len(s) - Len(suf) + 1, Len(s)) = suf
    THEN SubSeq(s, 1, Len(s) - Len(suf))
    ELSE s

\* _img_stem: img.name.removesuffix(".gz").removesuffix(".nii")
_img_stem(name) == removesuffix(removesuffix(name, GZ), NII)

\* str.rfind("."), 1-based; 0 when there is no dot
rfind_dot(s) ==
    LET dots == {i \in 1..Len(s) : s[i] = DOT}
    IN IF dots = {} THEN 0 ELSE CHOOSE i \in dots : \A j \in dots : j <= i

\* PurePath.suffix: the part from the last dot on, unless that dot is the
\* first or the last character of the name
path_suffix(s) ==
    LET j == rfind_dot(s)
    IN IF 1 < j /\ j < Len(s) THEN SubSeq(s, j, Len(s)) ELSE <<>>

\* PurePath.with_suffix: the old suffix, when there is one, is REPLACED
with_suffix(s, suffix) ==
    LET old == path_suffix(s)
    IN IF old = <<>> THEN s \o suffix
       ELSE SubSeq(s, 1, Len(s) - Len(old)) \o suffix

\* _predict_fsl_anat_output: (out / basename).with_suffix(".anat"); the
\* output root is the same for every task, a path is its last component
_predict_fsl_anat_output(basename) == with_suffix(basename, ANAT)

\* ------------------------------------------------------------- the images
\* An image: its file name, its voxel intensities (a short sequence of
\* integers stands for the 3-D array), whether its axis is stored against
\* the standard orientation, and whether the file is there.
img(name, vol, flip, present) ==
    [name |-> name, vol |-> vol, flip |-> flip, present |-> present]

Catalog ==
    << img(<<"a">> \o NII \o GZ, <<1, 2, 0>>, TRUE, TRUE),       \* a.nii.gz, flipped
       img(<<"a", ".", "x">> \o NII, <<-1, 2>>, FALSE, TRUE),      \* a.x.nii, a voxel below 0
       img(<<"b">> \o GZ, <<-2, -1>>, FALSE, TRUE),                \* b.gz, every voxel below 0
       img(<<"c">> \o NII \o GZ, <<0, 3>>, FALSE, FALSE) >>        \* c.nii.gz, no such file

\* The batches: the flow treats the positions of a batch alike, so the
\* images of a batch are taken in the order of the catalog.
Batches ==
    {[i \in Subjects |-> Catalog[ix[i]]] :
        ix \in {f \in [Subjects -> DOMAIN Catalog] :
                  \A i, j \in Subjects : i < j => f[i] <= f[j]}}

\* ---------------------------------------------------- files of a directory
T1 == "T1.nii.gz"
T1_orig == "T1_orig.nii.gz"
T1_orig2std == "T1_orig2std.mat"
T1_std2orig == "T1_std2orig.mat"
T1_fullfov == "T1_fullfov.nii.gz"
T1_roi2nonroi == "T1_roi2nonroi.mat"
T1_roi_log == "T1_roi.log"
T1_nonroi2roi == "T1_nonroi2roi.mat"
T1_orig2roi == "T1_orig2roi.mat"
T1_roi2orig == "T1_roi2orig.mat"

MatrixFiles ==
    {T1_orig2std, T1_std2orig, T1_roi2nonroi, T1_nonroi2roi, T1_orig2roi, T1_roi2orig}

\* The files FSLAnatResult.from_root requires (fslanat.models.fslanat is not
\* among the sources: two names stand for the engine's manifest).
Manifest == {"T1_biascorr.nii.gz", "T1_to_MNI_lin.nii.gz"}

\* FSLAnatResult.from_root: every required file is present, or it raises
from_root(files) == Manifest \subseteq files

\* --------------------------------------------------------------- contents
\* What a volume file holds: the voxels, whether the stored axis runs
\* against the standard orientation, whether noise was added, and the
\* bounds it was cropped with (<<>> when it was not cropped).
staged(image) == [vox |-> image.vol, flip |-> image.flip, noisy |-> FALSE, roi |-> <<>>]

Reverse(seq) == [i \in 1..Len(seq) |-> seq[Len(seq) + 1 - i]]

\* An affine transform of the one axis a volume has here, in homogeneous
\* coordinates: <<<<a, b>>, <<0, 1>>>> maps x to a * x + b.
Identity == <<<<1, 0>>, <<0, 1>>>>

\* the matrix product B * A: first A, then B
matmul(B, A) ==
    [i \in 1..2 |-> [j \in 1..2 |-> B[i][1] * A[1][j] + B[i][2] * A[2][j]]]

det(A) == A[1][1] * A[2][2] - A[1][2] * A[2][1]

\* convert_xfm -inverse: the adjugate over the determinant (which is 1 or
\* -1 for a flip or a shift, so that dividing by it is multiplying by it)
matinv(A) ==
    LET d == det(A)
    IN << <<A[2][2] * d, (0 - A[1][2]) * d>>, <<(0 - A[2][1]) * d, A[1][1] * d>> >>

\* convert_xfm -omat AtoC -concat BtoC AtoB
concat(BtoC, AtoB) == matmul(BtoC, AtoB)

\* fslreorient2std: the matrix it prints for a volume, and the volume it writes
reorient_matrix(c) ==
    IF c.flip THEN <<<<0 - 1, Len(c.vox) - 1>>, <<0, 1>>>> ELSE Identity
reoriented(c) == [c EXCEPT !.vox = IF c.flip THEN Reverse(@) ELSE @, !.flip = FALSE]

\* robustfov: the second line it prints, <<first voxel, size>>, and the
\* matrix it writes (roi to full field of view).  The estimate here is the
\* span from the first voxel above 0 to the end.
fov_bounds(c) ==
    LET pos == {i \in 1..Len(c.vox) : c.vox[i] > 0}
        i0 == IF pos = {} THEN 0 ELSE (CHOOSE i \in pos : \A j \in pos : i <= j) - 1
    IN <<i0, Len(c.vox) - i0>>
fov_matrix(c) == <<<<1, fov_bounds(c)[1]>>, <<0, 1>>>>

\* fslroi: the volume cut to the bounds
cropped(c, roi) ==
    [c EXCEPT !.vox = SubSeq(@, roi[1] + 1, roi[1] + roi[2]), !.roi = roi]

\* ------------------------------------------------------- the crop chain
\* The call sites of external tools, in the order of the code.
ReorientTools == <<"fslmaths", "fslreorient2std_mat", "convert_xfm_std2orig",
                   "fslreorient2std">>
CropTools == <<"robustfov", "fslroi", "convert_xfm_nonroi2roi",
               "convert_xfm_orig2roi", "convert_xfm_roi2orig">>
ENGINE == "fsl_anat"

\* The state of a chain run: the files of the directory, the files whose
\* content is not what their name says (the captured stdout of a tool that
\* failed), what the other files hold, the tools invoked so far, the
\* exception raised ("" for none), the noisy copy in the named temporary
\* file, the volume the estimator was given and the line it answered.
chain(files, bad, log, err) ==
    [files |-> files, bad |-> bad, data |-> <<>>, log |-> log, err |-> err,
     tmpfile |-> <<>>, fovin |-> <<>>, roi |-> <<>>]

raise(s, e) == [s EXCEPT !.err = e]

\* np.flatnonzero(nii.get_fdata()) and the values at those indices
nonzero(vol) == SelectSeq(vol, LAMBDA v : v # 0)

\* np.quantile(values, 0.9), linear interpolation, times 10 to stay integral:
\* position 0.9 * (n - 1) between the sorted values below and above it.
\* (An empty selection gives nan, which passes the scale check: 0 here.)
quantile90x10(values) ==
    LET n == Len(values)
        srt == SortSeq(values, LAMBDA x, y : x < y)
        lo == (9 * (n - 1)) \div 10
        f == (9 * (n - 1)) % 10
        hi == IF lo + 1 < n THEN lo + 1 ELSE lo
    IN IF n = 0 THEN 0 ELSE (10 - f) * srt[lo + 1] + f * srt[hi + 1]

\* np.random.normal(0, sigma, ...) raises ValueError when sigma < 0
normal_raises(vol) == quantile90x10(nonzero(vol)) < 0

\* subprocess.run of a tool that reads `needs` and writes the files of `w`
\* (file name to content): it is logged; it writes only if it does not
\* fail and its inputs are usable.  Nothing looks at how it ended.
run_tool(s, tool, needs, w, fails) ==
    IF s.err # "" THEN s
    ELSE LET ok == tool \notin fails /\ needs \subseteq (s.files \ s.bad)
         IN IF ok
            THEN [s EXCEPT !.files = @ \cup DOMAIN w, !.bad = @ \ DOMAIN w,
                           !.data = w @@ @, !.log = Append(@, tool)]
            ELSE [s EXCEPT !.log = Append(@, tool)]

\* run_and_log_stdout: the tool's stdout is written to the log file whether
\* or not the tool succeeded
run_and_log_stdout(s, tool, needs, w, fails) ==
    IF s.err # "" THEN s
    ELSE LET ok == tool \notin fails /\ needs \subseteq (s.files \ s.bad)
         IN IF ok
            THEN [s EXCEPT !.files = @ \cup DOMAIN w, !.bad = @ \ DOMAIN w,
                           !.data = w @@ @, !.log = Append(@, tool)]
            ELSE [s EXCEPT !.files = @ \cup DOMAIN w, !.bad = @ \cup DOMAIN w,
                           !.data = [x \in DOMAIN @ \ DOMAIN w |-> @[x]],
                           !.log = Append(@, tool)]

\* one statement after another: F applied to the value of s0
Then(s0, F(_)) == CHOOSE r \in {F(s) : s \in {s0}} : TRUE

\* lines 43-49: fslmaths T1 T1_orig
copy_orig(s, fails) ==
    run_tool(s, "fslmaths", {T1}, T1_orig :> s.data[T1], fails)

\* lines 50-52: fslreorient2std T1 > T1_orig2std.mat
print_orig2std(s, fails) ==
    run_and_log_stdout(s, "fslreorient2std_mat", {T1},
                       T1_orig2std :> reorient_matrix(s.data[T1]), fails)

\* lines 53-61: convert_xfm -omat T1_std2orig.mat -inverse T1_orig2std.mat
invert_orig2std(s, fails) ==
    run_tool(s, "convert_xfm_std2orig", {T1_orig2std},
             T1_std2orig :> matinv(s.data[T1_orig2std]), fails)

\* lines 62-68: fslreorient2std T1 T1
reorient_in_place(s, fails) ==
    run_tool(s, "fslreorient2std", {T1}, T1 :> reoriented(s.data[T1]), fails)

\* _reorient2standard
_reorient2standard(s0, fails) ==
    LET copy(s) == copy_orig(s, fails)
        matrix(s) == print_orig2std(s, fails)
        inverse(s) == invert_orig2std(s, fails)
        reorient(s) == reorient_in_place(s, fails)
    IN Then(Then(Then(Then(s0, copy), matrix), inverse), reorient)

\* shutil.move(t1, fullfov)
move_fullfov(s) ==
    IF s.err # "" THEN s
    ELSE IF T1 \notin s.files THEN raise(s, "FileNotFoundError")
    ELSE [s EXCEPT !.files = (@ \ {T1}) \cup {T1_fullfov},
                   !.data = (T1_fullfov :> @[T1])
                               @@ [x \in DOMAIN @ \ {T1} |-> @[x]]]

\* the noise added to the volume at fullfov itself
make_noisy_in_place(s) ==
    IF s.err # "" THEN s
    ELSE IF normal_raises(s.data[T1_fullfov].vox) THEN raise(s, "ValueError")
    ELSE [s EXCEPT !.tmpfile = [s.data[T1_fullfov] EXCEPT !.noisy = TRUE],
                   !.data = [@ EXCEPT ![T1_fullfov].noisy = TRUE]]

\* lines 88-97: the noisy copy of the volume at fullfov, written to a named
\* temporary file outside the directory; the only check on the intensities
\* is the one np.random.normal makes on sigma
make_noisy(s) ==
    IF s.err # "" THEN s
    ELSE IF normal_raises(s.data[T1_fullfov].vox) THEN raise(s, "ValueError")
    ELSE [s EXCEPT !.tmpfile = [s.data[T1_fullfov] EXCEPT !.noisy = TRUE]]

\* an estimator whose short answer is taken for the whole field of view
robustfov_lenient(s, fov) ==
    IF s.err # "" THEN s
    ELSE LET full == <<0, Len(s.tmpfile.vox)>>
             ran(s1) ==
                 [s1 EXCEPT !.fovin = s.tmpfile, !.tmpfile = <<>>,
                            !.roi = IF fov < 2 THEN full ELSE fov_bounds(s.tmpfile),
                            !.files = @ \cup {T1_roi_log},
                            !.data = (T1_roi_log :>
                                        IF fov < 2 THEN full ELSE fov_bounds(s.tmpfile)) @@ @]
         IN Then(run_tool(s, "robustfov", {},
                          T1_roi2nonroi :> fov_matrix(s.tmpfile),
                          IF fov < 2 THEN {"robustfov"} ELSE {}), ran)

\* lines 99-111: robustfov -m T1_roi2nonroi.mat -i <the temporary file>; fov
\* is the number of lines it printed; log.stdout.splitlines()[1] raises
\* IndexError below two lines; the second line goes to T1_roi.log
robustfov(s, fov) ==
    IF s.err # "" THEN s
    ELSE LET given(s1) == [s1 EXCEPT !.fovin = s.tmpfile, !.tmpfile = <<>>]
             ran(s1) ==
                 IF fov < 2 THEN raise(s1, "IndexError")
                 ELSE [s1 EXCEPT !.roi = fov_bounds(s1.fovin),
                                 !.files = @ \cup {T1_roi_log},
                                 !.data = (T1_roi_log :> fov_bounds(s1.fovin)) @@ @]
         IN Then(Then(run_tool(s, "robustfov", {},
                               T1_roi2nonroi :> fov_matrix(s.tmpfile),
                               IF fov < 2 THEN {"robustfov"} ELSE {}),
                      given), ran)

\* lines 113-120: fslroi T1_fullfov T1 <the second line>
crop_to_roi(s, fails) ==
    run_tool(s, "fslroi", {T1_fullfov},
             T1 :> cropped(s.data[T1_fullfov], s.roi), fails)

\* lines 126-134: convert_xfm -omat T1_nonroi2roi.mat -inverse T1_roi2nonroi.mat
invert_roi2nonroi(s, fails) ==
    run_tool(s, "convert_xfm_nonroi2roi", {T1_roi2nonroi},
             T1_nonroi2roi :> matinv(s.data[T1_roi2nonroi]), fails)

\* the two matrices of the concatenation in the other order
concat_orig2roi_swapped(s, fails) ==
    run_tool(s, "convert_xfm_orig2roi", {T1_nonroi2roi, T1_orig2std},
             T1_orig2roi :> concat(s.data[T1_orig2std], s.data[T1_nonroi2roi]), fails)

\* lines 135-144: convert_xfm -omat T1_orig2roi.mat -concat T1_nonroi2roi.mat
\* T1_orig2std.mat
concat_orig2roi(s, fails) ==
    run_tool(s, "convert_xfm_orig2roi", {T1_nonroi2roi, T1_orig2std},
             T1_orig2roi :> concat(s.data[T1_nonroi2roi], s.data[T1_orig2std]), fails)

\* lines 145-153: convert_xfm -omat T1_roi2orig.mat -inverse T1_orig2roi.mat
invert_orig2roi(s, fails) ==
    run_tool(s, "convert_xfm_roi2orig", {T1_orig2roi},
             T1_roi2orig :> matinv(s.data[T1_orig2roi]), fails)

\* _precrop on a directory that holds the staged volume of `image`; the
\* environment gives the tools that fail and the estimator's line count
_precrop(files, image, fails, fov) ==
    LET reorient(s) == _reorient2standard(s, fails)
        estimate(s) == robustfov(s, fov)
        crop(s) == crop_to_roi(s, fails)
        nonroi2roi(s) == invert_roi2nonroi(s, fails)
        orig2roi(s) == concat_orig2roi(s, fails)
        roi2orig(s) == invert_orig2roi(s, fails)
    IN Then(Then(Then(Then(Then(Then(Then(Then(
           [chain(files, {}, <<>>, "") EXCEPT !.data = T1 :> staged(image)],
           reorient), move_fullfov), make_noisy), estimate), crop),
           nonroi2roi), orig2roi), roi2orig)

\* ------------------------------------------------------------------ state
VARIABLES
    images,      \* the batch: a sequence of images (anats)
    precrops,    \* the crop flags given to _main
    strongbias,  \* [given, list]: the bias flags given to _main, or None
    n_workers,   \* the size of the Dask worker pool
    main,        \* per run: "idle", "running", "returned" or "raised"
    flowState,   \* per run: the state the flow call returned
    task,        \* per task: its position and what it has done
    tmpfs,       \* the temporary directories that exist, with their files
    out,         \* the final paths that exist under the output root
    faults,      \* failures so far: of the chain's tools, of the engine
    limit,       \* how many calls of the chain's tools, of the engine may fail,
                 \* and how many times _main is called
    started      \* per run: what _main saw of the output root when called

vars == <<images, precrops, strongbias, n_workers, main, flowState, task,
          tmpfs, out, faults, limit, started>>

Tasks == Runs \X (Subjects)

Terminal == {"SKIPPED", "DONE", "FAILED"}
Active == {"PROCESS", "PUBLISH", "COPY"}

\* The flag lists: every list of crop flags as long as the batch or one
\* shorter; for strongbias None, a list as long as the batch (set for the
\* first image only) and a list one shorter.
BoolSeqs(n) == [1..n -> BOOLEAN]
PrecropLists == UNION {BoolSeqs(n) : n \in (BatchLen - 1)..BatchLen}
None == [given |-> FALSE, list |-> <<>>]
StrongbiasLists ==
    {None} \cup {[given |-> TRUE, list |-> [i \in 1..n |-> i = 1]] :
                    n \in (BatchLen - 1)..BatchLen}

NoDir == <<0, 0>>
\* the environment of a chain in which every tool works
NoEnv == [fails |-> {}, fov |-> 2]
newTask ==
    [pc |-> "NONE", tmp |-> NoDir, precrop |-> FALSE, strongbias |-> FALSE,
     fslflags |-> <<>>, log |-> <<>>, steps |-> <<>>, err |-> "", exit |-> 0,
     env |-> NoEnv, fovin |-> <<>>, roi |-> <<>>, found |-> FALSE]

\* the state before _main is called, for the given choice of bias lists
\* and of failures the environment may cause
InitWith(sbs, lim) ==
    /\ images \in Batches
    /\ precrops \in PrecropLists
    /\ strongbias \in sbs
    /\ n_workers \in 1..MaxWorkers
    /\ main = [r \in Runs |-> "idle"]
    /\ flowState = [r \in Runs |-> "none"]
    /\ task = [t \in Tasks |-> newTask]
    /\ tmpfs = <<>>
    /\ out = <<>>
    /\ faults = [chain |-> 0, engine |-> 0]
    /\ limit = lim
    /\ started = [r \in Runs |-> [after |-> FALSE, out |-> <<>>]]

\* every tool of the chain works; the engine may fail
Init == InitWith(StrongbiasLists,
                 [chain |-> 0, engine |-> MaxFaults, runs |-> Cardinality(Runs)])

\* a fair scheduler and no failing program: a task fails on its input (no
\* such file, intensities below 0) or on a final path that exists
FairInit == InitWith({None}, [chain |-> 0, engine |-> 0, runs |-> Cardinality(Runs)])

\* ------------------------------------------------------------ the paths
basename(t) == _img_stem(images[t[2]].name)
anat(t) == _predict_fsl_anat_output(basename(t))

\* a check of a path that is never there
exists_never(p, fs) == FALSE

\* Path.exists
exists(p, fs) == p \in DOMAIN fs

\* a directory at a final path holds everything of its source
complete(d) == d.full

\* ---------------------------------------------------------- _main, flow
\* the length checks of fslanat_flow (precrops and strongbias are given)
flow_lengths_ok(imgs, pre, sb) == Len(imgs) = Len(pre) /\ Len(imgs) = Len(sb)

\* a run is fully successful: _main returned and no task of it failed
fullySuccessful(r) ==
    /\ main[r] = "returned"
    /\ \A i \in Subjects : task[<<r, i>>].pc \in {"DONE", "SKIPPED"}

\* _main up to the return of the flow function's body: its own length
\* check, the default for strongbias, the flow's length checks, and one
\* submit per image.  The flow is called with return_state=True, so an
\* exception raised in the flow body is returned as a Failed state.
MainCall(r) ==
    /\ main[r] = "idle"
    /\ \A q \in Runs : q < r => main[q] # "idle"   \* the runs are numbered as they start
    /\ r <= limit.runs
    /\ started' = [started EXCEPT ![r] =
                     IF \E q \in Runs \ {r} : fullySuccessful(q)
                     THEN [after |-> TRUE, out |-> out]
                     ELSE [after |-> FALSE, out |-> <<>>]]
    /\ IF Len(images) # Len(precrops)
       THEN /\ main' = [main EXCEPT ![r] = "raised"]
            /\ UNCHANGED <<flowState, task>>
       ELSE LET sb == IF strongbias.given THEN strongbias.list
                      ELSE [i \in 1..Len(images) |-> FALSE]
            IN IF ~flow_lengths_ok(images, precrops, sb)
               THEN /\ main' = [main EXCEPT ![r] = "returned"]
                    /\ flowState' = [flowState EXCEPT ![r] = "Failed"]
                    /\ UNCHANGED task
               ELSE /\ main' = [main EXCEPT ![r] = "running"]
                    /\ flowState' = [flowState EXCEPT ![r] = "Running"]
                    /\ task' = [t \in Tasks |->
                                  IF t[1] = r
                                  THEN [task[t] EXCEPT !.pc = "PENDING",
                                                       !.precrop = precrops[t[2]],
                                                       !.strongbias = sb[t[2]]]
                                  ELSE task[t]]
    /\ UNCHANGED <<images, precrops, strongbias, n_workers, tmpfs, out, faults, limit>>

\* a flow run that ends with the first task that fails
MainReturn_abort(r) ==
    /\ main[r] = "running"
    /\ \/ \A i \in Subjects : task[<<r, i>>].pc \in Terminal
       \/ \E i \in Subjects : task[<<r, i>>].pc = "FAILED"
    /\ flowState' = [flowState EXCEPT ![r] =
                       IF \E i \in Subjects : task[<<r, i>>].pc = "FAILED"
                       THEN "Failed" ELSE "Completed"]
    /\ main' = [main EXCEPT ![r] = "returned"]
    /\ UNCHANGED <<images, precrops, strongbias, n_workers, task, tmpfs, out,
                   faults, limit, started>>

\* the flow run ends when every submitted task is terminal; its state is
\* Failed if a task failed; _main drops the state and returns None
MainReturn(r) ==
    /\ main[r] = "running"
    /\ \A i \in Subjects : task[<<r, i>>].pc \in Terminal
    /\ flowState' = [flowState EXCEPT ![r] =
                       IF \E i \in Subjects : task[<<r, i>>].pc = "FAILED"
                       THEN "Failed" ELSE "Completed"]
    /\ main' = [main EXCEPT ![r] = "returned"]
    /\ UNCHANGED <<images, precrops, strongbias, n_workers, task, tmpfs, out,
                   faults, limit, started>>

\* the exit status of the process: non-zero only if _main raised
ExitStatus(r) == IF main[r] = "raised" THEN 1 ELSE 0

\* ---------------------------------------------------------------- _fslanat
\* a pool that never counts a worker as taken
busy_none(r) == {}

\* tasks of run r that hold a worker
busy(r) == {i \in Subjects : task[<<r, i>>].pc \in Active}

\* tempfile.mkdtemp: a new directory under a random name that no existing
\* directory has; the name drawn by the call of task t is written t
mkdtemp(t, fs) == CHOOSE d \in {t} : d \notin DOMAIN fs

Range(f) == {f[x] : x \in DOMAIN f}

\* a function with one more, or one changed, or one fewer entry
put(fs, k, v) == [x \in DOMAIN fs \cup {k} |-> IF x = k THEN v ELSE fs[x]]
remove(fs, k) == [x \in DOMAIN fs \ {k} |-> fs[x]]

\* a directory made with mkdtemp and left behind
cleanup_leak(fs, d) == fs

\* leaving the TemporaryDirectory block: the directory is removed
cleanup(fs, d) == remove(fs, d)

\* an exception leaves the with block: the task ends FAILED
Frame == UNCHANGED <<images, precrops, strongbias, n_workers, main, flowState,
                     limit, started>>

ChainTools == Range(ReorientTools) \cup (Range(CropTools) \ {"robustfov"})


\* The environments of one _precrop call: the tools that fail and the
\* number of lines the estimator prints; those with at most k failures
EnvsWithin ==
    [k \in 0..MaxFaults |->
        {e \in [fails : SUBSET ChainTools, fov : 0..2] :
            Cardinality(e.fails) + (IF e.fov < 2 THEN 1 ELSE 0) <= k}]

\* the environments within what is left of the failures of a behaviour
ChainEnvs == EnvsWithin[limit.chain - faults.chain]

\* the source moved into the directory instead of copied
move_source(imgs, i) == [imgs EXCEPT ![i].present = FALSE]

\* line 174: shutil.copy2(image, tmpdir / "T1.nii.gz") reads the source and
\* leaves it as it is; the directory gets staged(image)
copy2(imgs, i) == imgs

\* flags that leave out the bias mode
fslflags_nobias(precrop, bias) ==
    IF precrop THEN <<"--nocrop", "--noreorient">> ELSE <<>>

\* lines 175-180: the flags of the engine's command line
fslflags(precrop, bias) ==
    (IF precrop THEN <<"--nocrop", "--noreorient">> ELSE <<>>)
        \o (IF bias THEN <<"--strongbias">> ELSE <<>>)

\* lines 163-180, from the check of the predicted output to the engine's
\* command line.  A worker takes the task; if the predicted output exists
\* nothing else happens.  Otherwise the temporary directory is created, the
\* image is copied into it and, with precrop, _precrop runs on it.  Only the
\* check reads anything another task can change, so the steps are one action.
Start(t) ==
    /\ task[t].pc = "PENDING"
    /\ Cardinality(busy(t[1])) < n_workers
    /\ IF exists(anat(t), out)
       THEN /\ task' = [task EXCEPT ![t].pc = "SKIPPED"]
            /\ UNCHANGED <<tmpfs, faults>>
       ELSE LET d == mkdtemp(t, tmpfs)
            IN IF ~images[t[2]].present
               THEN \* shutil.copy2 raises; the new directory is removed
                    /\ task' = [task EXCEPT ![t].pc = "FAILED", ![t].tmp = d,
                                            ![t].err = "FileNotFoundError",
                                            ![t].steps = <<"STAGE">>]
                    /\ UNCHANGED <<tmpfs, faults>>
               ELSE IF ~task[t].precrop
               THEN /\ task' = [task EXCEPT ![t].pc = "PROCESS", ![t].tmp = d,
                                            ![t].steps = <<"STAGE">>,
                                            ![t].fslflags =
                                                fslflags(FALSE, task[t].strongbias)]
                    /\ tmpfs' = put(tmpfs, d, [files |-> {T1}, bad |-> {},
                                               data |-> T1 :> staged(images[t[2]])])
                    /\ UNCHANGED faults
               ELSE \E e \in ChainEnvs :
                    \E s \in {_precrop({T1}, images[t[2]], e.fails, e.fov)} :
                         /\ e.fails \subseteq Range(s.log)
                         /\ e.fov < 2 => "robustfov" \in Range(s.log)
                         /\ faults' = [faults EXCEPT !.chain =
                                @ + Cardinality(e.fails) + (IF e.fov < 2 THEN 1 ELSE 0)]
                         /\ IF s.err # ""
                            THEN /\ task' = [task EXCEPT
                                       ![t].pc = "FAILED", ![t].tmp = d,
                                       ![t].err = s.err, ![t].log = s.log,
                                       ![t].env = e, ![t].fovin = s.fovin,
                                       ![t].roi = s.roi,
                                       ![t].steps = <<"STAGE", "TRANSFORM">>]
                                 /\ UNCHANGED tmpfs
                            ELSE /\ task' = [task EXCEPT
                                       ![t].pc = "PROCESS", ![t].tmp = d,
                                       ![t].log = s.log,
                                       ![t].env = e, ![t].fovin = s.fovin,
                                       ![t].roi = s.roi,
                                       ![t].steps = <<"STAGE", "TRANSFORM">>,
                                       ![t].fslflags =
                                           fslflags(TRUE, task[t].strongbias)]
                                 /\ tmpfs' = put(tmpfs, d,
                                                 [files |-> s.files, bad |-> s.bad,
                                                  data |-> s.data])
    /\ images' = IF exists(anat(t), out) \/ ~images[t[2]].present
                  THEN images ELSE copy2(images, t[2])
    /\ UNCHANGED <<out, precrops, strongbias, n_workers, main, flowState, limit, started>>

\* subprocess.run(...).returncode of the engine: 0, or not 0 (1 stands for
\* every error status and for the negative signal number of an engine that
\* was killed: nothing reads the value)
ExitStatuses == {0, 1}

\* what fsl_anat leaves in the directory: everything of its manifest when
\* it finds the volume and runs through, a part of it otherwise
engine_writes(files, ok) ==
    IF ok /\ T1 \in files THEN {Manifest}
    ELSE (SUBSET Manifest) \ {Manifest}

\* the engine call without the check of what it left
Process_unchecked(t) ==
    /\ task[t].pc = "PROCESS"
    /\ \E ok \in BOOLEAN, status \in ExitStatuses :
         LET d == task[t].tmp
             n == IF ok /\ status = 0 THEN 0 ELSE 1
         IN /\ faults.engine + n <= limit.engine
            /\ faults' = [faults EXCEPT !.engine = @ + n]
            /\ \E w \in engine_writes(tmpfs[d].files, ok) :
                 /\ task' = [task EXCEPT
                       ![t].pc = "PUBLISH",
                       ![t].log = Append(@, ENGINE),
                       ![t].steps = @ \o <<"PROCESS", "VALIDATE">>,
                       ![t].exit = status,
                       ![t].found = Manifest \subseteq (tmpfs[d].files \cup w)]
                 /\ tmpfs' = [tmpfs EXCEPT ![d].files = @ \cup w]
    /\ UNCHANGED out
    /\ Frame

\* a check that takes the engine's word: exit status 0 is enough
validated_by_status(files, status) == status = 0

\* line 192: FSLAnatResult.from_root(tmpdir) returns, or raises; the exit
\* status of the engine is not an input of it
validated(files, status) == from_root(files)

\* an engine that is called again when its result is not complete
Process_retry(t) ==
    /\ task[t].pc = "PROCESS"
    /\ \E ok \in BOOLEAN, status \in ExitStatuses :
         LET d == task[t].tmp
             n == IF ok /\ status = 0 THEN 0 ELSE 1
         IN /\ faults.engine + n <= limit.engine
            /\ faults' = [faults EXCEPT !.engine = @ + n]
            /\ \E w \in engine_writes(tmpfs[d].files, ok) :
                 LET files == tmpfs[d].files \cup w
                 IN /\ task' = [task EXCEPT
                          ![t].pc = IF validated(files, status) THEN "PUBLISH" ELSE "PROCESS",
                          ![t].log = Append(@, ENGINE),
                          ![t].steps = @ \o <<"PROCESS", "VALIDATE">>,
                          ![t].exit = status,
                          ![t].found = Manifest \subseteq files]
                    /\ tmpfs' = [tmpfs EXCEPT ![d].files = files]
    /\ UNCHANGED out
    /\ Frame

\* lines 182-192: the engine call, whose exit status and output are not
\* looked at, and FSLAnatResult.from_root(tmpdir) on what it left
Process(t) ==
    /\ task[t].pc = "PROCESS"
    /\ \E ok \in BOOLEAN, status \in ExitStatuses :
         LET d == task[t].tmp
             n == IF ok /\ status = 0 THEN 0 ELSE 1
         IN /\ faults.engine + n <= limit.engine
            /\ faults' = [faults EXCEPT !.engine = @ + n]
            /\ \E w \in engine_writes(tmpfs[d].files, ok) :
                 LET files == tmpfs[d].files \cup w
                 IN IF validated(files, status)
                    THEN /\ task' = [task EXCEPT
                               ![t].pc = "PUBLISH",
                               ![t].log = Append(@, ENGINE),
                               ![t].steps = @ \o <<"PROCESS", "VALIDATE">>,
                               ![t].exit = status,
                               ![t].found = Manifest \subseteq files]
                         /\ tmpfs' = [tmpfs EXCEPT ![d].files = files]
                    ELSE /\ task' = [task EXCEPT
                               ![t].pc = "FAILED", ![t].err = "MissingArtifact",
                               ![t].log = Append(@, ENGINE),
                               ![t].steps = @ \o <<"PROCESS", "VALIDATE">>,
                               ![t].exit = status,
                               ![t].found = Manifest \subseteq files]
                         /\ tmpfs' = cleanup(tmpfs, d)
    /\ UNCHANGED out
    /\ Frame

\* copytree with dirs_exist_ok=True
makedirs_exist_ok(p, fs) == FALSE

\* os.makedirs(dst) of shutil.copytree raises when dst exists
makedirs_raises(p, fs) == exists(p, fs)

\* shutil.copytree(tmpdir, anat), its first step: the creation of the
\* destination, which must not exist.  From here on the final path exists.
PublishMkdir(t) ==
    /\ task[t].pc = "PUBLISH"
    /\ IF makedirs_raises(anat(t), out)
       THEN /\ task' = [task EXCEPT ![t].pc = "FAILED", ![t].err = "FileExistsError",
                                     ![t].steps = Append(@, "PUBLISH")]
            /\ tmpfs' = cleanup(tmpfs, task[t].tmp)
            /\ UNCHANGED out
       ELSE /\ task' = [task EXCEPT ![t].pc = "COPY",
                                     ![t].steps = Append(@, "PUBLISH")]
            /\ out' = put(out, anat(t),
                          [src |-> tmpfs[task[t].tmp].files, full |-> FALSE, by |-> t])
            /\ UNCHANGED tmpfs
    /\ UNCHANGED faults
    /\ Frame

\* shutil.copytree, the rest: the entries are copied one after the other
\* (until the last one is there the destination is not full), copytree
\* returns and the with block is left
PublishCopy(t) ==
    /\ task[t].pc = "COPY"
    /\ out' = [out EXCEPT ![anat(t)].full = TRUE]
    /\ task' = [task EXCEPT ![t].pc = "DONE"]
    /\ tmpfs' = cleanup(tmpfs, task[t].tmp)
    /\ UNCHANGED faults
    /\ Frame

TaskStep(t) ==
    \/ Start(t)
    \/ Process(t)
    \/ PublishMkdir(t)
    \/ PublishCopy(t)

Next ==
    \/ \E r \in Runs : MainCall(r)
    \/ \E r \in Runs : MainReturn(r)
    \/ \E t \in Tasks : TaskStep(t)

Spec == Init /\ [][Next]_vars

\* the Dask scheduler runs every submitted task on a worker that is free,
\* every step of a task ends, and the flow run ends when its tasks have
FairSpec == FairInit /\ [][Next]_vars /\ WF_vars(Next)

\* one run, in which a tool of the chain may fail or the estimator print
\* too little; the engine works
ChainInit == InitWith({None}, [chain |-> MaxFaults, engine |-> 0, runs |-> 1])
ChainSpec == ChainInit /\ [][Next]_vars

\* one run against an empty output root; every tool of the chain works and
\* the engine may fail
OneRunInit == InitWith(StrongbiasLists,
                       [chain |-> 0, engine |-> MaxFaults, runs |-> 1])
OneRunSpec == OneRunInit /\ [][Next]_vars

\* ---------------------------------------------------------------- claims
Dispatched(t) == task[t].pc # "NONE"
HasRun(t) == task[t].pc \notin {"NONE", "PENDING", "SKIPPED"}
Negative(vol) == \E i \in DOMAIN vol : vol[i] < 0
Before(a, b, seq) ==
    \E i, j \in DOMAIN seq : i < j /\ seq[i] = a /\ seq[j] = b
SamePath(t) == {u \in Tasks : anat(u) = anat(t)}

\* C1: a task that finds its predicted output path when it starts goes
\* straight to SKIPPED: no temporary directory, no tool or engine call, no
\* change under the output root; and a run started after a fully successful
\* run of the same batch calls no engine and leaves the output root as it
\* found it.
C1_SkipStep ==
    \A t \in Tasks :
        (task[t].pc = "PENDING" /\ anat(t) \in DOMAIN out /\ task'[t].pc # "PENDING")
        => /\ task'[t].pc = "SKIPPED"
           /\ task'[t].tmp = NoDir
           /\ task'[t].log = <<>>
           /\ out' = out
           /\ tmpfs' = tmpfs
C1_Skipped ==
    \A t \in Tasks :
        task[t].pc = "SKIPPED" =>
            task[t].tmp = NoDir /\ task[t].log = <<>> /\ task[t].steps = <<>>
C1_SecondRun ==
    \A r \in Runs :
        started[r].after =>
            /\ out = started[r].out
            /\ \A i \in Subjects :
                  /\ task[<<r, i>>].pc \in {"NONE", "PENDING", "SKIPPED"}
                  /\ task[<<r, i>>].log = <<>>
C1_SkipWhenOutputExists == [][C1_SkipStep]_vars /\ [](C1_Skipped /\ C1_SecondRun)

C1_Witness ==
    \E r \in Runs :
        /\ started[r].after
        /\ main[r] = "returned"
        /\ \A i \in Subjects : task[<<r, i>>].pc = "SKIPPED"
        /\ \E p \in DOMAIN out : complete(out[p])

\* C2: a final output path is never there without holding the complete,
\* validated output: no state shows it partly filled.
C2_FinalPathNeverPartial ==
    \A p \in DOMAIN out : out[p].full /\ Manifest \subseteq out[p].src

\* C3: the tasks that fail stop no other task: every dispatched task ends
\* SKIPPED, DONE or FAILED, _main returns only when all its tasks have, and
\* a task that failed has left nothing at a final path, so that no other
\* task is skipped, or refused at its publish, because of it.
C3_ReturnsAfterAll ==
    \A r \in Runs :
        main[r] = "returned" =>
            \A i \in Subjects : task[<<r, i>>].pc \in (Terminal \cup {"NONE"})
C3_FailedLeftNothing ==
    /\ \A p \in DOMAIN out : task[out[p].by].pc \in {"COPY", "DONE"}
    /\ \A t \in Tasks :
          (task[t].pc = "SKIPPED" \/ task[t].err = "FileExistsError")
              => anat(t) \in DOMAIN out
C3_AllEnd ==
    /\ \A r \in Runs : main[r] \in {"returned", "raised"}
    /\ \A t \in Tasks : task[t].pc \in (Terminal \cup {"NONE"})
C3_FailureIsolation ==
    [](C3_ReturnsAfterAll /\ C3_FailedLeftNothing) /\ <>[]C3_AllEnd

C3_Witness ==
    \E r \in Runs : \E i, j \in Subjects :
        /\ main[r] = "returned"
        /\ task[<<r, i>>].pc = "FAILED"
        /\ task[<<r, j>>].pc = "DONE"

\* C4: when the crop list or the bias list is not as long as the batch,
\* _main raises to its caller and no task is dispatched.
C4_LengthMismatchRaises ==
    \A r \in Runs :
        (/\ main[r] # "idle"
         /\ \/ Len(precrops) # Len(images)
            \/ strongbias.given /\ Len(strongbias.list) # Len(images))
        => /\ main[r] = "raised"
           /\ \A i \in Subjects : ~Dispatched(<<r, i>>)

\* C5: a final output path is made only by a task whose result check passed
\* before its publish; a task whose result check fails ends FAILED, leaves
\* nothing at its final path and its temporary directory is removed.
C5_PublishOnlyValidated ==
    /\ \A p \in DOMAIN out :
          /\ Manifest \subseteq out[p].src
          /\ Before("VALIDATE", "PUBLISH", task[out[p].by].steps)
          /\ task[out[p].by].err = ""
    /\ \A t \in Tasks :
          (HasRun(t) /\ task[t].pc \in {"PUBLISH", "COPY", "DONE"})
              => Manifest \subseteq
                    (IF task[t].pc = "DONE" THEN out[anat(t)].src
                     ELSE tmpfs[task[t].tmp].files)
    /\ \A t \in Tasks :
          task[t].err = "MissingArtifact" =>
              /\ task[t].pc = "FAILED"
              /\ task[t].tmp \notin DOMAIN tmpfs
              /\ \A p \in DOMAIN out : out[p].by # t

C5_Witness ==
    \E t, u \in Tasks :
        /\ task[t].err = "MissingArtifact"
        /\ anat(t) \notin DOMAIN out
        /\ task[u].pc = "DONE"

\* C6: with the crop flag set and a voxel below 0 in the staged volume, the
\* chain fails before any external tool is called and the task ends FAILED.
C6_NegativeFailsBeforeTools ==
    \A t \in Tasks :
        (/\ HasRun(t)
         /\ task[t].precrop
         /\ images[t[2]].present
         /\ Negative(images[t[2]].vol))
        => task[t].pc = "FAILED" /\ task[t].log = <<>>

\* C7: a task that passes the check of its output owns a temporary
\* directory no other task uses, and once the task has ended, DONE or
\* FAILED wherever it failed, that directory is gone.
C7_WorkdirOwnedAndRemoved ==
    /\ \A t \in Tasks :
          task[t].pc \in Active =>
              /\ task[t].tmp \in DOMAIN tmpfs
              /\ \A u \in Tasks \ {t} : task[u].tmp # task[t].tmp
    /\ \A t \in Tasks :
          task[t].pc \in Terminal => task[t].tmp \notin DOMAIN tmpfs
    /\ \A t \in Tasks : HasRun(t) => task[t].tmp # NoDir

C7_Witness ==
    \E t, u, v \in Tasks :
        /\ task[t].pc = "DONE"
        /\ task[u].pc = "FAILED" /\ task[u].err = "FileExistsError"
        /\ task[v].pc = "FAILED" /\ task[v].err = "MissingArtifact"
        /\ tmpfs = <<>>

\* C8: when a batch has finished, the exit status is a failure if a task
\* of it ended FAILED.
C8_ExitStatusReflectsFailure ==
    \A r \in Runs :
        (/\ main[r] \in {"returned", "raised"}
         /\ \E i \in Subjects : task[<<r, i>>].pc = "FAILED")
        => ExitStatus(r) # 0

\* what a task that runs alone, with every program working, publishes
Expected(t) ==
    IF task[t].precrop
    THEN _precrop({T1}, images[t[2]], {}, 2).files \cup Manifest
    ELSE {T1} \cup Manifest

\* C9: two runs work on the same subject at once.  However their checks
\* and publishes interleave, both runs end, and when the tasks have ended
\* and one of them got to its publish, the final path holds one complete
\* output, that of exactly one of the tasks, as that task alone would have
\* published it; nothing at a final path is ever a mix of two tasks' files.
C9_SameSubject(i) ==
    \A u \in SamePath(<<1, i>>) : images[u[2]] = images[i]
C9_OneOutput ==
    \A i \in Subjects :
        LET S == SamePath(<<1, i>>)
            p == anat(<<1, i>>)
        IN (/\ C9_SameSubject(i)
            /\ \A u \in S : task[u].pc \in Terminal
            /\ \E u \in S : \E k \in DOMAIN task[u].steps : task[u].steps[k] = "PUBLISH")
           => /\ p \in DOMAIN out
              /\ out[p].full
              /\ {u \in S : task[u].pc = "DONE"} = {out[p].by}
C9_NeverMixed ==
    \A p \in DOMAIN out :
        /\ anat(out[p].by) = p
        /\ out[p].src = Expected(out[p].by)
C9_RunsEnd == \A r \in Runs : main[r] \in {"returned", "raised"}
C9_ConcurrentRunsConverge == [](C9_OneOutput /\ C9_NeverMixed) /\ <>[]C9_RunsEnd

C9_Witness ==
    \E i \in Subjects :
        /\ C9_SameSubject(i)
        /\ task[<<1, i>>].pc \in Terminal /\ task[<<2, i>>].pc \in Terminal
        /\ \E t, u \in {<<1, i>>, <<2, i>>} :
              /\ task[t].pc = "DONE"
              /\ task[u].err = "FileExistsError"
        /\ out[anat(<<1, i>>)].full

\* C10: the final path of a subject is its basename followed by .anat, so
\* two images of a batch with different basenames have different paths.
C10_PathIsBasenameDotAnat ==
    \A t \in Tasks :
        Dispatched(t) =>
            /\ anat(t) = basename(t) \o ANAT
            /\ \A u \in Tasks :
                  (u[1] = t[1] /\ basename(u) # basename(t)) => anat(u) # anat(t)

\* the contents of the directory of a task that is past the chain
Stored(t) == tmpfs[task[t].tmp].data
Cropping(t) == task[t].precrop /\ task[t].pc \in Active
Inverses(A, B) == matmul(A, B) = Identity /\ matmul(B, A) = Identity

\* C11: after a chain that returned, the stored orig-to-roi matrix is the
\* product of the stored std-to-roi and orig-to-std matrices (first orig to
\* std, then std to roi), and each stored inverse times its forward matrix
\* is the identity; when every tool worked all six matrices are stored.
\* (The entries are integers here, so the products are compared exactly.)
C11_TransformsConsistent ==
    \A t \in Tasks :
        Cropping(t) =>
            LET m == Stored(t)
                has(S) == S \subseteq DOMAIN m
            IN /\ has({T1_orig2roi, T1_nonroi2roi, T1_orig2std})
                     => m[T1_orig2roi] = matmul(m[T1_nonroi2roi], m[T1_orig2std])
               /\ has({T1_std2orig, T1_orig2std})
                     => Inverses(m[T1_std2orig], m[T1_orig2std])
               /\ has({T1_roi2nonroi, T1_nonroi2roi})
                     => Inverses(m[T1_roi2nonroi], m[T1_nonroi2roi])
               /\ has({T1_roi2orig, T1_orig2roi})
                     => Inverses(m[T1_roi2orig], m[T1_orig2roi])
               /\ task[t].env = NoEnv => has(MatrixFiles)

C11_Witness ==
    \E t \in Tasks :
        /\ Cropping(t)
        /\ MatrixFiles \subseteq DOMAIN Stored(t)
        /\ Stored(t)[T1_orig2std] # Identity
        /\ Stored(t)[T1_nonroi2roi] # Identity
        /\ Stored(t)[T1_orig2roi] # Stored(t)[T1_orig2std]

Validated(t) == \E k \in DOMAIN task[t].steps : task[t].steps[k] = "VALIDATE"
Published(t) == \E p \in DOMAIN out : out[p].by = t

\* C12 as stated: of the tasks that got past the engine, those that end
\* DONE are exactly those whose directory held every required file.
C12_ValidatorAloneDecides ==
    \A t \in Tasks :
        (Validated(t) /\ task[t].pc \in Terminal)
            => (task[t].pc = "DONE" <=> task[t].found)

\* C12: whatever the exit status of the engine, a task goes on to its
\* publish exactly if every required file is in its directory; it then ends
\* DONE unless the publish finds the final path already there (then it ends
\* FAILED with FileExistsError); a task whose directory lacks a required
\* file ends FAILED and publishes nothing, exit status 0 or not.
C12_ValidatorDecidesPublish ==
    \A t \in Tasks :
        Validated(t) =>
            /\ task[t].exit \in ExitStatuses
            /\ IF task[t].found
               THEN /\ task[t].pc \in {"PUBLISH", "COPY", "DONE", "FAILED"}
                    /\ task[t].pc = "FAILED" =>
                          /\ task[t].err = "FileExistsError"
                          /\ anat(t) \in DOMAIN out
                    /\ task[t].pc \in {"COPY", "DONE"} => Published(t)
               ELSE /\ task[t].pc = "FAILED"
                    /\ task[t].err = "MissingArtifact"
                    /\ ~Published(t)

C12_Witness ==
    \E t, u \in Tasks :
        /\ Validated(t) /\ task[t].exit = 0 /\ ~(task[t].found)
        /\ task[t].pc = "FAILED" /\ ~Published(t)
        /\ Validated(u) /\ task[u].pc = "DONE" /\ Published(u)

\* the steps of a task that is not skipped, in their order
StepOrder(precrop) ==
    IF precrop THEN <<"STAGE", "TRANSFORM", "PROCESS", "VALIDATE", "PUBLISH">>
    ELSE <<"STAGE", "PROCESS", "VALIDATE", "PUBLISH">>
IsPrefix(a, b) == Len(a) <= Len(b) /\ SubSeq(b, 1, Len(a)) = a
Count(x, seq) == Cardinality({k \in DOMAIN seq : seq[k] = x})
Did(t, step) == \E k \in DOMAIN task[t].steps : task[t].steps[k] = step

\* C13: the steps a task has taken, in the order it took them, are always
\* the first so many of STAGE, the transform when the crop flag is set,
\* PROCESS, VALIDATE, PUBLISH, each once.  The engine is called at most once
\* per task, only by a task that has staged (and transformed, with the crop
\* flag), and it is the last tool the task ever calls: nothing is called
\* once the validation has started.
C13_StrictlySequential ==
    \A t \in Tasks :
        LET steps == task[t].steps
            log == task[t].log
            pc == task[t].pc
        IN /\ IsPrefix(steps, StepOrder(task[t].precrop))
           /\ pc \in {"NONE", "PENDING", "SKIPPED"} <=> steps = <<>>
           /\ IF Did(t, "PROCESS")
              THEN /\ Count(ENGINE, log) = 1
                   /\ log[Len(log)] = ENGINE
                   /\ pc # "PROCESS"
              ELSE /\ \A k \in DOMAIN log : log[k] # ENGINE
                   /\ pc \notin {"PUBLISH", "COPY", "DONE"}
           /\ pc = "PROCESS" => steps # <<>>
           /\ pc \in {"PUBLISH", "COPY", "DONE"} => Did(t, "VALIDATE")
           /\ pc \in {"COPY", "DONE"} => Did(t, "PUBLISH")

C13_Witness ==
    \E t, u \in Tasks :
        /\ task[t].pc = "DONE" /\ task[t].precrop
        /\ task[t].steps = StepOrder(TRUE)
        /\ task[u].pc = "FAILED" /\ task[u].err = "MissingArtifact"
        /\ Count(ENGINE, task[u].log) = 1

\* the tasks of run r that have passed their check and not yet ended
Between(r) == {i \in Subjects : HasRun(<<r, i>>) /\ task[<<r, i>>].pc \notin Terminal}

\* C14: in every state of a run with n_workers workers, at most n_workers of
\* its tasks are between STAGE and the end of PUBLISH, each with a temporary
\* directory of its own, and so at most n_workers of them are at the engine.
C14_PoolBoundsTasks ==
    \A r \in Runs :
        /\ Cardinality(Between(r)) <= n_workers
        /\ Cardinality({i \in Subjects : task[<<r, i>>].pc = "PROCESS"}) <= n_workers
        /\ Cardinality({task[<<r, i>>].tmp : i \in Between(r)}) = Cardinality(Between(r))

C14_Witness ==
    \E r \in Runs : \E i, j \in Subjects :
        /\ n_workers < BatchLen
        /\ Cardinality(Between(r)) = n_workers
        /\ task[<<r, i>>].pc = "PROCESS"
        /\ task[<<r, j>>].pc = "PENDING"
        /\ ~exists(anat(<<r, j>>), out)

Called(t, tool) == \E k \in DOMAIN task[t].log : task[t].log[k] = tool
Volumes == {T1, T1_orig, T1_fullfov}

\* C15: the estimator is given the noisy copy of the reoriented volume and
\* nothing else; the crop is called after the estimator has answered, on
\* the reoriented volume without noise, with the very line the estimator
\* printed (which is also what T1_roi.log holds); no volume of the
\* directory, the one handed to the engine least of all, carries the noise.
C15_CropUsesEstimate ==
    \A t \in Tasks :
        Did(t, "TRANSFORM") =>
            LET std == reoriented(staged(images[t[2]]))
            IN /\ (Called(t, "robustfov") /\ "fslreorient2std" \notin task[t].env.fails)
                     => task[t].fovin = [std EXCEPT !.noisy = TRUE]
               /\ Called(t, "fslroi") =>
                     /\ Before("robustfov", "fslroi", task[t].log)
                     /\ task[t].roi = fov_bounds(task[t].fovin)
               /\ task[t].pc \in Active =>
                     LET m == Stored(t)
                     IN /\ \A f \in Volumes \cap DOMAIN m : ~m[f].noisy
                        /\ m[T1_roi_log] = task[t].roi
                        /\ T1 \in DOMAIN m =>
                              /\ m[T1] = cropped(m[T1_fullfov], task[t].roi)
                              /\ "fslreorient2std" \notin task[t].env.fails
                                    => m[T1_fullfov] = std

C15_Witness ==
    \E t \in Tasks :
        /\ Cropping(t) /\ Called(t, ENGINE)
        /\ images[t[2]].flip
        /\ task[t].fovin.noisy
        /\ task[t].roi[1] > 0
        /\ Stored(t)[T1].roi = task[t].roi
        /\ Len(Stored(t)[T1].vox) < Len(images[t[2]].vol)

\* C16: the output a task with the crop flag has published holds the six
\* matrix files, each derived matrix was computed after what it is derived
\* from; a task without the crop flag calls no tool of the chain.
C16_SixMatricesPublished ==
    \A t \in Tasks :
        /\ (task[t].precrop /\ task[t].pc = "DONE") =>
              /\ MatrixFiles \subseteq out[anat(t)].src
              /\ Before("fslreorient2std_mat", "convert_xfm_std2orig", task[t].log)
              /\ Before("robustfov", "convert_xfm_nonroi2roi", task[t].log)
              /\ Before("fslreorient2std_mat", "convert_xfm_orig2roi", task[t].log)
              /\ Before("convert_xfm_nonroi2roi", "convert_xfm_orig2roi", task[t].log)
              /\ Before("convert_xfm_orig2roi", "convert_xfm_roi2orig", task[t].log)
        /\ ~task[t].precrop =>
              /\ ~Did(t, "TRANSFORM")
              /\ \A k \in DOMAIN task[t].log : task[t].log[k] = ENGINE

\* C17: the engine of the i-th image is called with --nocrop --noreorient
\* exactly if the i-th crop flag given to _main is set, and then after every
\* tool of the chain; with --strongbias exactly if a bias list was given and
\* its i-th entry is set; and with nothing else.
C17_FlagsFollowRequest ==
    \A t \in Tasks :
        Called(t, ENGINE) =>
            LET i == t[2]
                crop == precrops[i]
                bias == strongbias.given /\ strongbias.list[i]
                flags == Range(task[t].fslflags)
            IN /\ flags \subseteq {"--nocrop", "--noreorient", "--strongbias"}
               /\ Len(task[t].fslflags) = Cardinality(flags)
               /\ "--nocrop" \in flags <=> crop
               /\ "--noreorient" \in flags <=> crop
               /\ "--strongbias" \in flags <=> bias
               /\ task[t].log =
                      (IF crop THEN ReorientTools \o CropTools ELSE <<>>) \o <<ENGINE>>

C17_Witness ==
    \E r \in Runs :
        /\ strongbias.given /\ strongbias.list = <<TRUE, FALSE>>
        /\ precrops = <<FALSE, TRUE>>
        /\ Called(<<r, 1>>, ENGINE) /\ Called(<<r, 2>>, ENGINE)
        /\ task[<<r, 1>>].fslflags = <<"--strongbias">>
        /\ task[<<r, 2>>].fslflags = <<"--nocrop", "--noreorient">>

\* the estimator of task t printed fewer than two lines
ShortAnswer(t) == Called(t, "robustfov") /\ task[t].env.fov < 2
Inversions == {"convert_xfm_std2orig", "convert_xfm_nonroi2roi",
               "convert_xfm_orig2roi", "convert_xfm_roi2orig"}

\* C18 as stated: when the estimator prints fewer than two lines the task
\* ends FAILED with no crop, no inversion or composition of a matrix and no
\* engine call in its log, and nothing published.
C18_ShortAnswerBeforeAnyMatrix ==
    \A t \in Tasks :
        ShortAnswer(t) =>
            /\ task[t].pc = "FAILED"
            /\ \A tool \in {"fslroi", ENGINE} \cup Inversions : ~Called(t, tool)
            /\ ~Published(t)

\* C18: when the estimator prints fewer than two lines the chain raises
\* (IndexError) right after the estimator: the task ends FAILED, its
\* temporary directory is removed, nothing is published, and the crop, the
\* inversion of the estimator's matrix, the composition, the inversion of
\* the composition and the engine are never called.  The inversion of the
\* reorientation matrix has been called by then: it comes before the
\* estimator.
C18_ShortAnswerFailsTask ==
    \A t \in Tasks :
        ShortAnswer(t) =>
            /\ task[t].pc = "FAILED" /\ task[t].err = "IndexError"
            /\ task[t].log = ReorientTools \o <<"robustfov">>
            /\ Before("convert_xfm_std2orig", "robustfov", task[t].log)
            /\ task[t].tmp \notin DOMAIN tmpfs
            /\ ~Published(t)

C18_Witness ==
    \E t, u \in Tasks :
        /\ ShortAnswer(t) /\ task[t].err = "IndexError"
        /\ t[1] = u[1] /\ task[u].pc = "DONE"
        /\ anat(t) \notin DOMAIN out

\* a tool that writes a matrix, and the tool that reads that matrix next
Feeds == {<<"convert_xfm_nonroi2roi", "convert_xfm_orig2roi">>,
          <<"convert_xfm_orig2roi", "convert_xfm_roi2orig">>}

\* C19: when the tool that should have written the input matrix of an
\* inversion or composition failed, the chain raises at that step: the task
\* ends FAILED, and neither the steps after it nor the engine are called.
C19_MissingMatrixFailsChain ==
    \A t \in Tasks : \A f \in Feeds :
        (Did(t, "TRANSFORM") /\ Called(t, f[1]) /\ f[1] \in task[t].env.fails)
            => /\ task[t].pc = "FAILED"
               /\ task[t].err # ""
               /\ ~Called(t, ENGINE)
               /\ \A tool \in ChainTools : ~Before(f[2], tool, task[t].log)

\* C20: a step changes no source image; under the output root it deletes
\* nothing, and what it creates or changes is the final path of the task
\* that takes the step; and the only temporary directory it creates, changes
\* or removes is that task's own.
C20_Step ==
    LET stepping == {t \in Tasks : task'[t] # task[t]}
    IN /\ images' = images
       /\ DOMAIN out \subseteq DOMAIN out'
       /\ \A p \in DOMAIN out' :
             (p \notin DOMAIN out \/ out'[p] # out[p])
                 => \E t \in stepping : anat(t) = p /\ out'[p].by = t
       /\ \A d \in DOMAIN tmpfs \cup DOMAIN tmpfs' :
             (d \notin DOMAIN tmpfs \/ d \notin DOMAIN tmpfs' \/ tmpfs'[d] # tmpfs[d])
                 => \E t \in stepping : task'[t].tmp = d
C20_TouchesOnlyItsOwn == [][C20_Step]_vars

C20_Witness ==
    \E t \in Tasks :
        /\ task[t].pc = "DONE" /\ task[t].precrop
        /\ images[t[2]].present
        /\ out[anat(t)].by = t
        /\ {T1, T1_orig, T1_fullfov} \subseteq out[anat(t)].src
        /\ tmpfs = <<>>

====
